---- MODULE Spec2Model ----
(***************************************************************************)
(* State-machine model of sender/sender.cpp: the capability probe (exec,    *)
(* checkNvencAvailable), the command construction and the launch-and-wait   *)
(* of the streaming child in main.                                          *)
(*                                                                          *)
(* Text is modelled as a sequence of characters; a character is a one-      *)
(* letter string, with the names "LF" and "NUL" for '\n' and '\0'.          *)
(***************************************************************************)
EXTENDS Integers, Sequences, FiniteSets, TLC

VARIABLES
    pc,          \* position of the single thread of main
    argv,        \* the argument vector, argv[0] included
    targetPort,  \* the configured port
    frameRate,   \* the configured frame rate
    targetIp,    \* main's local targetIp
    probeOut,    \* the text the probing subprocess is going to print
    probe,       \* the probing subprocess: "none", "running", "closed"
    pending,     \* what the probing subprocess has not written yet
    avail,       \* what is in the pipe, written and not yet read
    pipe,        \* exec's FILE* pipe: "null", "open", "closed"
    buffer,      \* exec's buffer, the terminator excluded
    result,      \* exec's result
    reads,       \* number of fgets calls that returned data
    exc,         \* the exception in flight: "none", "runtime_error", "bad_alloc"
    output,      \* checkNvencAvailable's output: <<>> until exec has returned
    nvenc,       \* checkNvencAvailable's return value: <<>> until it returns
    probeCalls,  \* number of calls of checkNvencAvailable
    ffmpegCmd,   \* main's ffmpegCmd
    launched,    \* the command lines handed to CreateProcessA
    lastError,   \* the value GetLastError returned, <<>> if not called
    child,       \* the streaming child: "none", "running", "exited"
    childExit,   \* how the child ended and its exit status, <<>> while it has not
    acquired,    \* per handle, the number of times it was acquired
    released,    \* per handle, the number of times it was released
    out,         \* what was written to std::cout
    err,         \* what was written to std::cerr
    exitCode     \* main's return value: <<>> until main returns

vars == <<pc, argv, targetPort, frameRate, targetIp, probeOut, probe, pending,
          avail, pipe, buffer, result, reads, exc, output, nvenc, probeCalls,
          ffmpegCmd, launched, lastError, child, childExit, acquired,
          released, out, err, exitCode>>

(***************************************************************************)
(* Configuration and literals of the source                                *)
(***************************************************************************)
DEFAULT_TARGET_IP == <<"1","9","2",".","1","6","8",".","1",".","1","0","0">>
TARGET_PORT == 5555
FRAME_RATE == 60
BufSize == 128

Needle == <<"h","2","6","4","_","n","v","e","n","c">>
Npos == 0 - 1

S_ffmpeg == <<"f","f","m","p","e","g"," ","-","h","i","d","e","_","b","a","n","n","e","r"," ">>
S_gdigrab == <<"-","f"," ","g","d","i","g","r","a","b"," ">>
S_framerate == <<"-","f","r","a","m","e","r","a","t","e"," ">>
S_desktop == <<"-","i"," ","d","e","s","k","t","o","p"," ">>
S_codec == <<"-","c",":","v"," ","h","2","6","4","_","n","v","e","n","c"," ">>
S_preset == <<"-","p","r","e","s","e","t"," ","p","1"," ">>
S_tune == <<"-","t","u","n","e"," ","l","l"," ">>
S_qp == <<"-","q","p"," ","0"," ">>
S_rc == <<"-","r","c"," ","c","o","n","s","t","q","p"," ">>
S_mpegts == <<"-","f"," ","m","p","e","g","t","s"," ">>
S_udp == <<"u","d","p",":","/","/">>

Handles == {"pipe", "hProcess", "hThread"}

(***************************************************************************)
(* Bounds of the model and the inputs drawn from them                      *)
(***************************************************************************)
MaxArgs == 2
PadSlack == 1
MaxLastError == 3
MaxChildStatus == 1

Prog == <<"s","e","n","d","e","r">>
Host1 == <<"1","0",".","0",".","0",".","5">>
HostSp == <<"a"," ","b">>
Hosts == {Host1, HostSp}

ArgLists == UNION {[1..n -> Hosts] : n \in 0..MaxArgs}
ArgvSet == {<<Prog>> \o a : a \in ArgLists}

Pad(k) == [i \in 1..k |-> "x"]
PadLens == {0} \cup ((BufSize - 1 - Len(Needle) - PadSlack) .. (BufSize - 1 + PadSlack))
Frags == { <<>>,
           Needle,
           SubSeq(Needle, 1, Len(Needle) - 1),
           <<"h","2","6","4","_","LF","n","v","e","n","c">>,
           <<"h","2","6","4","_","NUL","n","v","e","n","c">>,
           <<"LF">> \o Needle,
           <<"NUL">> \o Needle }
Tails == { <<>>, <<"LF">> }
ProbeOutputs == {Pad(k) \o f \o t : k \in PadLens, f \in Frags, t \in Tails}

LastErrors == 2..MaxLastError
ChildStatuses == 0..MaxChildStatus
ExitKinds == {"normal", "crash", "killed"}
Ports == {1, 80, TARGET_PORT, 65535}
Rates == {1, 30, FRAME_RATE}

(***************************************************************************)
(* Library functions the source calls, by what they do                     *)
(***************************************************************************)
Min(a, b) == IF a <= b THEN a ELSE b

\* index of the first c in s, 0 if there is none
IndexOf(s, c) ==
    IF \E i \in 1..Len(s) : s[i] = c
    THEN CHOOSE i \in 1..Len(s) : s[i] = c /\ \A j \in 1..(i - 1) : s[j] # c
    ELSE 0

\* a char array read as a C string: the characters before the first '\0'
CStr(buf) ==
    IF IndexOf(buf, "NUL") = 0 THEN buf ELSE SubSeq(buf, 1, IndexOf(buf, "NUL") - 1)

\* fgets(buffer, n, pipe) blocks until it can return: a whole line, n - 1
\* characters, or end-of-stream
FgetsReady(data, eof, n) ==
    \/ eof
    \/ Len(data) >= n - 1
    \/ IndexOf(SubSeq(data, 1, Min(Len(data), n - 1)), "LF") # 0

\* the number of characters fgets(buffer, n, pipe) takes from the stream
FgetsLen(data, n) ==
    LET window == SubSeq(data, 1, Min(Len(data), n - 1))
    IN  IF IndexOf(window, "LF") # 0 THEN IndexOf(window, "LF") ELSE Len(window)

\* variant: assignment instead of +=
StrAppend_Assign(s, buf) == CStr(buf)

\* std::string::operator+=(const char*)
StrAppend(s, buf) == s \o CStr(buf)

\* std::string::find: the position (from 0) of the first occurrence, or npos
StrFind(s, n) ==
    LET hits == {i \in 1..(Len(s) - Len(n) + 1) : SubSeq(s, i, i + Len(n) - 1) = n}
    IN  IF hits = {} THEN Npos
        ELSE (CHOOSE i \in hits : \A j \in hits : i <= j) - 1

\* operator<<(std::ostream&, int) for a non-negative int: decimal digits
Digit(d) == <<"0","1","2","3","4","5","6","7","8","9">>[d + 1]

RECURSIVE IntToStr(_)
IntToStr(n) == IF n < 10 THEN <<Digit(n)>> ELSE IntToStr(n \div 10) \o <<Digit(n % 10)>>

(***************************************************************************)
(* Pure parts of main and checkNvencAvailable                              *)
(***************************************************************************)
\* argv[i] of the source, counted from 0
Arg(av, i) == av[i + 1]

\* variant: the last argument is taken instead of the first
ResolveTargetIp_Last(av) == IF Len(av) > 1 THEN Arg(av, Len(av) - 1) ELSE DEFAULT_TARGET_IP

\* main, argument parsing: argc > 1 selects argv[1], else the default
ResolveTargetIp(av) == IF Len(av) > 1 THEN Arg(av, 1) ELSE DEFAULT_TARGET_IP

\* variant: the position is tested as a truth value, without npos
NvencFound_Truthy(o) == StrFind(o, Needle) # 0

\* checkNvencAvailable's test of the captured output
NvencFound(o) == StrFind(o, Needle) # Npos

\* variant: the separator after the frame rate is missing
BuildStreamCommand_NoSpace(host, port, rate) ==
    S_ffmpeg \o S_gdigrab \o S_framerate \o IntToStr(rate) \o
    S_desktop \o S_codec \o S_preset \o S_tune \o S_qp \o S_rc \o S_mpegts \o
    S_udp \o host \o <<":">> \o IntToStr(port)

\* main, the text streamed into ffmpegCmdStream
BuildStreamCommand(host, port, rate) ==
    S_ffmpeg \o S_gdigrab \o S_framerate \o IntToStr(rate) \o <<" ">> \o
    S_desktop \o S_codec \o S_preset \o S_tune \o S_qp \o S_rc \o S_mpegts \o
    S_udp \o host \o <<":">> \o IntToStr(port)

\* main, cmdVec: the characters of ffmpegCmd followed by '\0'
CmdVec(cmd) == cmd \o <<"NUL">>

\* e.what() of the exception in flight
What(e) == IF e = "runtime_error" THEN "_popen() failed!" ELSE "bad allocation"

Acquire(h) == [x \in Handles |-> IF x \in h THEN acquired[x] + 1 ELSE acquired[x]]
Release(h) == [x \in Handles |-> IF x \in h THEN released[x] + 1 ELSE released[x]]

(***************************************************************************)
(* Initial states                                                          *)
(***************************************************************************)
InitRun ==
    /\ pc = "main_start"
    /\ argv \in ArgvSet
    /\ targetIp = DEFAULT_TARGET_IP
    /\ probe = "none"
    /\ pending = <<>>
    /\ avail = <<>>
    /\ pipe = "null"
    /\ buffer = <<>>
    /\ result = <<>>
    /\ reads = 0
    /\ exc = "none"
    /\ output = <<>>
    /\ nvenc = <<>>
    /\ probeCalls = 0
    /\ ffmpegCmd = <<>>
    /\ launched = <<>>
    /\ lastError = <<>>
    /\ child = "none"
    /\ childExit = <<>>
    /\ acquired = [h \in Handles |-> 0]
    /\ released = [h \in Handles |-> 0]
    /\ out = <<>>
    /\ err = <<>>
    /\ exitCode = <<>>

Init ==
    /\ InitRun
    /\ targetPort = TARGET_PORT
    /\ frameRate = FRAME_RATE
    /\ probeOut \in ProbeOutputs

\* the program built with other configuration constants
InitCmd ==
    /\ InitRun
    /\ targetPort \in Ports
    /\ frameRate \in Rates
    /\ probeOut \in {<<>>, Needle \o <<"LF">>, Pad(BufSize) \o Needle}

(***************************************************************************)
(* main: argument parsing                                                  *)
(***************************************************************************)
ParseArgs ==
    /\ pc = "main_start"
    /\ targetIp' = ResolveTargetIp(argv)
    /\ out' = Append(out, IF Len(argv) > 1
                          THEN <<"Using target IP from command line: ", targetIp'>>
                          ELSE <<"Using default target IP: ", targetIp'>>)
    /\ pc' = "check_start"
    /\ UNCHANGED <<argv, targetPort, frameRate, probeOut, probe, pending, avail,
                   pipe, buffer, result, reads, exc, output, nvenc, probeCalls,
                   ffmpegCmd, launched, lastError, child, childExit, acquired,
                   released, err, exitCode>>

(***************************************************************************)
(* checkNvencAvailable and exec                                            *)
(***************************************************************************)
\* checkNvencAvailable is entered and _popen succeeds
PopenOk ==
    /\ pc = "check_start"
    /\ probeCalls' = probeCalls + 1
    /\ out' = Append(out, <<"Checking for NVENC availability...">>)
    /\ pipe' = "open"
    /\ acquired' = Acquire({"pipe"})
    /\ probe' = "running"
    /\ pending' = probeOut
    /\ pc' = "exec_read"
    /\ UNCHANGED <<argv, targetPort, frameRate, targetIp, probeOut, avail,
                   buffer, result, reads, exc, output, nvenc, ffmpegCmd,
                   launched, lastError, child, childExit, released, err,
                   exitCode>>

\* checkNvencAvailable is entered, _popen returns NULL and exec throws
PopenFail ==
    /\ pc = "check_start"
    /\ probeCalls' = probeCalls + 1
    /\ out' = Append(out, <<"Checking for NVENC availability...">>)
    /\ exc' = "runtime_error"
    /\ pc' = "check_catch"
    /\ UNCHANGED <<argv, targetPort, frameRate, targetIp, probeOut, probe,
                   pending, avail, pipe, buffer, result, reads, output, nvenc,
                   ffmpegCmd, launched, lastError, child, childExit, acquired,
                   released, err, exitCode>>

\* the probing subprocess writes: up to the end of a line, or all that is left
ProbeWrite ==
    /\ probe = "running"
    /\ pending # <<>>
    /\ \E k \in {Len(pending)} \cup ({IndexOf(pending, "LF")} \ {0}) :
          /\ avail' = avail \o SubSeq(pending, 1, k)
          /\ pending' = SubSeq(pending, k + 1, Len(pending))
    /\ UNCHANGED <<pc, argv, targetPort, frameRate, targetIp, probeOut, probe,
                   pipe, buffer, result, reads, exc, output, nvenc, probeCalls,
                   ffmpegCmd, launched, lastError, child, childExit, acquired,
                   released, out, err, exitCode>>

\* the probing subprocess has written everything and closes its end
ProbeClose ==
    /\ probe = "running"
    /\ pending = <<>>
    /\ probe' = "closed"
    /\ UNCHANGED <<pc, argv, targetPort, frameRate, targetIp, probeOut, pending,
                   avail, pipe, buffer, result, reads, exc, output, nvenc,
                   probeCalls, ffmpegCmd, launched, lastError, child, childExit,
                   acquired, released, out, err, exitCode>>

\* variant: the loop is not left when fgets returns nullptr
Fgets_NoEof ==
    /\ pc = "exec_read"
    /\ FgetsReady(avail, probe = "closed", BufSize)
    /\ LET n == FgetsLen(avail, BufSize)
       IN  IF n = 0
           THEN /\ pc' = "exec_read"
                /\ UNCHANGED <<avail, buffer, result, reads>>
           ELSE /\ buffer' = SubSeq(avail, 1, n)
                /\ avail' = SubSeq(avail, n + 1, Len(avail))
                /\ result' = StrAppend(result, buffer')
                /\ reads' = reads + 1
                /\ pc' = "exec_read"
    /\ UNCHANGED <<argv, targetPort, frameRate, targetIp, probeOut, probe,
                   pending, pipe, exc, output, nvenc, probeCalls, ffmpegCmd,
                   launched, lastError, child, childExit, acquired, released,
                   out, err, exitCode>>

\* one evaluation of the while condition: fgets, then the body or the exit
Fgets ==
    /\ pc = "exec_read"
    /\ FgetsReady(avail, probe = "closed", BufSize)
    /\ LET n == FgetsLen(avail, BufSize)
       IN  IF n = 0
           THEN /\ pc' = "exec_close"
                /\ UNCHANGED <<avail, buffer, result, reads>>
           ELSE /\ buffer' = SubSeq(avail, 1, n)
                /\ avail' = SubSeq(avail, n + 1, Len(avail))
                /\ result' = StrAppend(result, buffer')
                /\ reads' = reads + 1
                /\ pc' = "exec_read"
    /\ UNCHANGED <<argv, targetPort, frameRate, targetIp, probeOut, probe,
                   pending, pipe, exc, output, nvenc, probeCalls, ffmpegCmd,
                   launched, lastError, child, childExit, acquired, released,
                   out, err, exitCode>>

\* fgets returns data and result += buffer throws std::bad_alloc
ReadThrow ==
    /\ pc = "exec_read"
    /\ FgetsReady(avail, probe = "closed", BufSize)
    /\ FgetsLen(avail, BufSize) > 0
    /\ buffer' = SubSeq(avail, 1, FgetsLen(avail, BufSize))
    /\ avail' = SubSeq(avail, FgetsLen(avail, BufSize) + 1, Len(avail))
    /\ reads' = reads + 1
    /\ exc' = "bad_alloc"
    /\ pc' = "exec_catch"
    /\ UNCHANGED <<argv, targetPort, frameRate, targetIp, probeOut, probe,
                   pending, pipe, result, output, nvenc, probeCalls, ffmpegCmd,
                   launched, lastError, child, childExit, acquired, released,
                   out, err, exitCode>>

\* variant: the handler rethrows without _pclose
ExecCatch_NoClose ==
    /\ pc = "exec_catch"
    /\ pc' = "check_catch"
    /\ UNCHANGED <<argv, targetPort, frameRate, targetIp, probeOut, probe,
                   pending, avail, pipe, buffer, result, reads, exc, output,
                   nvenc, probeCalls, ffmpegCmd, launched, lastError, child,
                   childExit, acquired, released, out, err, exitCode>>

\* exec's catch (...): _pclose(pipe); throw;
ExecCatch ==
    /\ pc = "exec_catch"
    /\ pipe' = "closed"
    /\ released' = Release({"pipe"})
    /\ pc' = "check_catch"
    /\ UNCHANGED <<argv, targetPort, frameRate, targetIp, probeOut, probe,
                   pending, avail, buffer, result, reads, exc, output, nvenc,
                   probeCalls, ffmpegCmd, launched, lastError, child, childExit,
                   acquired, out, err, exitCode>>

\* exec's normal end: _pclose(pipe); return result;
ExecClose ==
    /\ pc = "exec_close"
    /\ pipe' = "closed"
    /\ released' = Release({"pipe"})
    /\ output' = <<result>>
    /\ pc' = "check_find"
    /\ UNCHANGED <<argv, targetPort, frameRate, targetIp, probeOut, probe,
                   pending, avail, buffer, result, reads, exc, nvenc,
                   probeCalls, ffmpegCmd, launched, lastError, child, childExit,
                   acquired, out, err, exitCode>>

\* checkNvencAvailable: the substring test and its two returns
CheckFind ==
    /\ pc = "check_find"
    /\ IF NvencFound(output[1])
       THEN /\ out' = Append(out, <<"NVENC encoder found.">>)
            /\ nvenc' = <<TRUE>>
            /\ err' = err
       ELSE /\ err' = err \o << <<"Error: h264_nvenc encoder not found by FFmpeg.">>,
                                <<"Please ensure you have NVIDIA drivers installed and an FFmpeg build with NVENC enabled.">> >>
            /\ nvenc' = <<FALSE>>
            /\ out' = out
    /\ pc' = "check_ret"
    /\ UNCHANGED <<argv, targetPort, frameRate, targetIp, probeOut, probe,
                   pending, avail, pipe, buffer, result, reads, exc, output,
                   probeCalls, ffmpegCmd, launched, lastError, child, childExit,
                   acquired, released, exitCode>>

\* variant: the handler reports and rethrows, the exception reaches main
CheckCatch_Rethrow ==
    /\ pc = "check_catch"
    /\ err' = err \o << <<"Error checking for NVENC: ", What(exc)>>,
                        <<"Is FFmpeg installed and in your system's PATH?">> >>
    /\ pc' = "terminated"
    /\ UNCHANGED <<argv, targetPort, frameRate, targetIp, probeOut, probe,
                   pending, avail, pipe, buffer, result, reads, exc, output,
                   nvenc, probeCalls, ffmpegCmd, launched, lastError, child, childExit,
                   acquired, released, out, exitCode>>

\* checkNvencAvailable's catch (const std::exception&)
CheckCatch ==
    /\ pc = "check_catch"
    /\ err' = err \o << <<"Error checking for NVENC: ", What(exc)>>,
                        <<"Is FFmpeg installed and in your system's PATH?">> >>
    /\ exc' = "none"
    /\ nvenc' = <<FALSE>>
    /\ pc' = "check_ret"
    /\ UNCHANGED <<argv, targetPort, frameRate, targetIp, probeOut, probe,
                   pending, avail, pipe, buffer, result, reads, output,
                   probeCalls, ffmpegCmd, launched, lastError, child, childExit,
                   acquired, released, out, exitCode>>

(***************************************************************************)
(* main after the probe                                                    *)
(***************************************************************************)
\* if (!checkNvencAvailable()) return 1;
MainAbort ==
    /\ pc = "check_ret"
    /\ nvenc = <<FALSE>>
    /\ exitCode' = <<1>>
    /\ pc' = "aborted"
    /\ UNCHANGED <<argv, targetPort, frameRate, targetIp, probeOut, probe,
                   pending, avail, pipe, buffer, result, reads, exc, output,
                   nvenc, probeCalls, ffmpegCmd, launched, lastError, child,
                   childExit, acquired, released, out, err>>

\* the probe returned true: the command line is built and printed
BuildCommand ==
    /\ pc = "check_ret"
    /\ nvenc = <<TRUE>>
    /\ ffmpegCmd' = BuildStreamCommand(targetIp, targetPort, frameRate)
    /\ out' = Append(out, <<"Executing FFmpeg command:", ffmpegCmd'>>)
    /\ pc' = "create"
    /\ UNCHANGED <<argv, targetPort, frameRate, targetIp, probeOut, probe,
                   pending, avail, pipe, buffer, result, reads, exc, output,
                   nvenc, probeCalls, launched, lastError, child, childExit,
                   acquired, released, err, exitCode>>

\* CreateProcessA succeeds: pi holds the process and the thread handle
CreateOk ==
    /\ pc = "create"
    /\ launched' = Append(launched, CStr(CmdVec(ffmpegCmd)))
    /\ child' = "running"
    /\ childExit' = <<>>
    /\ acquired' = Acquire({"hProcess", "hThread"})
    /\ out' = Append(out, <<"Streaming started... Press Ctrl+C in this window to stop.">>)
    /\ pc' = "wait"
    /\ UNCHANGED <<argv, targetPort, frameRate, targetIp, probeOut, probe,
                   pending, avail, pipe, buffer, result, reads, exc, output,
                   nvenc, probeCalls, ffmpegCmd, lastError, released, err,
                   exitCode>>

\* variant: the return after the diagnostic is missing
CreateFail_FallThrough ==
    /\ pc = "create"
    /\ launched' = Append(launched, CStr(CmdVec(ffmpegCmd)))
    /\ \E e \in LastErrors :
          /\ lastError' = <<e>>
          /\ err' = err \o << <<"CreateProcess failed (", e, ").">>,
                              <<"Ensure ffmpeg.exe is in your system's PATH or in the same directory as sender.exe.">> >>
    /\ out' = Append(out, <<"Streaming started... Press Ctrl+C in this window to stop.">>)
    /\ pc' = "wait"
    /\ UNCHANGED <<argv, targetPort, frameRate, targetIp, probeOut, probe,
                   pending, avail, pipe, buffer, result, reads, exc, output,
                   nvenc, probeCalls, ffmpegCmd, child, childExit, acquired,
                   released, exitCode>>

\* CreateProcessA fails: the diagnostic with GetLastError(), return 1
CreateFail ==
    /\ pc = "create"
    /\ launched' = Append(launched, CStr(CmdVec(ffmpegCmd)))
    /\ \E e \in LastErrors :
          /\ lastError' = <<e>>
          /\ err' = err \o << <<"CreateProcess failed (", e, ").">>,
                              <<"Ensure ffmpeg.exe is in your system's PATH or in the same directory as sender.exe.">> >>
    /\ exitCode' = <<1>>
    /\ pc' = "launch_failed"
    /\ UNCHANGED <<argv, targetPort, frameRate, targetIp, probeOut, probe,
                   pending, avail, pipe, buffer, result, reads, exc, output,
                   nvenc, probeCalls, ffmpegCmd, child, childExit, acquired,
                   released, out>>

\* the streaming child ends, in whatever way and with whatever status
ChildExit ==
    /\ child = "running"
    /\ child' = "exited"
    /\ \E k \in ExitKinds, st \in ChildStatuses : childExit' = <<k, st>>
    /\ UNCHANGED <<pc, argv, targetPort, frameRate, targetIp, probeOut, probe,
                   pending, avail, pipe, buffer, result, reads, exc, output,
                   nvenc, probeCalls, ffmpegCmd, launched, lastError, acquired,
                   released, out, err, exitCode>>

\* variant: the wait returns whether or not the child has exited
WaitReturn_NoWait ==
    /\ pc = "wait"
    /\ out' = Append(out, <<"Streaming stopped.">>)
    /\ pc' = "close"
    /\ UNCHANGED <<argv, targetPort, frameRate, targetIp, probeOut, probe,
                   pending, avail, pipe, buffer, result, reads, exc, output,
                   nvenc, probeCalls, ffmpegCmd, launched, lastError, child,
                   childExit, acquired, released, err, exitCode>>

\* WaitForSingleObject(pi.hProcess, INFINITE) returns
WaitReturn ==
    /\ pc = "wait"
    /\ child = "exited"
    /\ out' = Append(out, <<"Streaming stopped.">>)
    /\ pc' = "close"
    /\ UNCHANGED <<argv, targetPort, frameRate, targetIp, probeOut, probe,
                   pending, avail, pipe, buffer, result, reads, exc, output,
                   nvenc, probeCalls, ffmpegCmd, launched, lastError, child,
                   childExit, acquired, released, err, exitCode>>

\* variant: main returns the exit status of the child
CloseHandles_ChildStatus ==
    /\ pc = "close"
    /\ released' = Release({"hProcess", "hThread"})
    /\ exitCode' = <<childExit[2]>>
    /\ pc' = "stopped"
    /\ UNCHANGED <<argv, targetPort, frameRate, targetIp, probeOut, probe,
                   pending, avail, pipe, buffer, result, reads, exc, output,
                   nvenc, probeCalls, ffmpegCmd, launched, lastError, child,
                   childExit, acquired, out, err>>

\* CloseHandle(pi.hProcess); CloseHandle(pi.hThread); return 0;
CloseHandles ==
    /\ pc = "close"
    /\ released' = Release({"hProcess", "hThread"})
    /\ exitCode' = <<0>>
    /\ pc' = "stopped"
    /\ UNCHANGED <<argv, targetPort, frameRate, targetIp, probeOut, probe,
                   pending, avail, pipe, buffer, result, reads, exc, output,
                   nvenc, probeCalls, ffmpegCmd, launched, lastError, child,
                   childExit, acquired, out, err>>

(***************************************************************************)
(* Specifications                                                          *)
(***************************************************************************)
\* the steps of the program itself
ProgramStep ==
    \/ ParseArgs
    \/ PopenOk
    \/ PopenFail
    \/ Fgets
    \/ ReadThrow
    \/ ExecCatch
    \/ ExecClose
    \/ CheckFind
    \/ CheckCatch
    \/ MainAbort
    \/ BuildCommand
    \/ CreateOk
    \/ CreateFail
    \/ WaitReturn
    \/ CloseHandles

\* the steps of the two subprocesses
ProbeStep == ProbeWrite \/ ProbeClose

Next == ProgramStep \/ ProbeStep \/ ChildExit

Spec == Init /\ [][Next]_vars

SpecCmd == InitCmd /\ [][Next]_vars

\* the program keeps running while it can; the probing subprocess reaches
\* end-of-stream and the streaming child exits
FairSpec ==
    /\ Init
    /\ [][Next]_vars
    /\ WF_vars(ProgramStep)
    /\ WF_vars(ProbeStep)
    /\ WF_vars(ChildExit)

TypeOK ==
    /\ pc \in {"main_start", "check_start", "exec_read", "exec_catch",
               "exec_close", "check_find", "check_catch", "check_ret",
               "aborted", "create", "launch_failed", "wait", "close", "stopped"}
    /\ probe \in {"none", "running", "closed"}
    /\ pipe \in {"null", "open", "closed"}
    /\ exc \in {"none", "runtime_error", "bad_alloc"}
    /\ child \in {"none", "running", "exited"}
    /\ nvenc \in {<<>>, <<TRUE>>, <<FALSE>>}
    /\ exitCode \in {<<>>, <<0>>, <<1>>}
    /\ Len(buffer) < BufSize

(***************************************************************************)
(* Vocabulary of the properties                                            *)
(***************************************************************************)
Contains(s, n) == \E i \in 1..(Len(s) - Len(n) + 1) : SubSeq(s, i, i + Len(n) - 1) = n

EndsWith(s, t) == Len(s) >= Len(t) /\ SubSeq(s, Len(s) - Len(t) + 1, Len(s)) = t

IsText(s) == \A i \in 1..Len(s) : s[i] # "NUL"

Printed(stream, line) == \E i \in 1..Len(stream) : stream[i] = line

Terminal == pc \in {"aborted", "launch_failed", "stopped"}

\* the state of the whole-program state machine the thread is in
Phase ==
    CASE pc = "main_start" -> "Idle"
      [] pc \in {"check_start", "exec_read", "exec_catch", "exec_close",
                 "check_find", "check_catch", "check_ret"} -> "Probing"
      [] pc = "aborted" -> "Aborted"
      [] pc = "create" -> "CommandBuilt"
      [] pc = "launch_failed" -> "LaunchFailed"
      [] pc = "wait" -> "Streaming"
      [] pc \in {"close", "stopped"} -> "Stopped"
      [] OTHER -> "Unknown"

\* a command line cut into its arguments at the spaces
RECURSIVE Args(_)
Args(s) ==
    IF s = <<>> THEN <<>>
    ELSE IF s[1] = " " THEN Args(Tail(s))
    ELSE IF \E i \in 1..Len(s) : s[i] = " "
         THEN LET k == CHOOSE i \in 1..Len(s) : s[i] = " " /\ \A j \in 1..(i - 1) : s[j] # " "
              IN  <<SubSeq(s, 1, k - 1)>> \o Args(SubSeq(s, k + 1, Len(s)))
         ELSE <<s>>

\* the value of a text of decimal digits
RECURSIVE DecValue(_)
DecValue(t) ==
    IF t = <<>> THEN 0
    ELSE 10 * DecValue(SubSeq(t, 1, Len(t) - 1)) +
         (CHOOSE d \in 0..9 : <<"0","1","2","3","4","5","6","7","8","9">>[d + 1] = t[Len(t)])

IsDecimalOf(t, n) ==
    /\ t # <<>>
    /\ \A i \in 1..Len(t) : t[i] \in {"0","1","2","3","4","5","6","7","8","9"}
    /\ (Len(t) > 1 => t[1] # "0")
    /\ DecValue(t) = n

HostOk(h) == \A i \in 1..Len(h) : h[i] \notin {" ", "NUL", "LF", "&", "|", ";"}

\* the arguments before the frame rate and between it and the destination
ArgsHead == << <<"f","f","m","p","e","g">>,
               <<"-","h","i","d","e","_","b","a","n","n","e","r">>,
               <<"-","f">>,
               <<"g","d","i","g","r","a","b">>,
               <<"-","f","r","a","m","e","r","a","t","e">> >>
ArgsMid == << <<"-","i">>,
              <<"d","e","s","k","t","o","p">>,
              <<"-","c",":","v">>,
              <<"h","2","6","4","_","n","v","e","n","c">>,
              <<"-","p","r","e","s","e","t">>,
              <<"p","1">>,
              <<"-","t","u","n","e">>,
              <<"l","l">>,
              <<"-","q","p">>,
              <<"0">>,
              <<"-","r","c">>,
              <<"c","o","n","s","t","q","p">>,
              <<"-","f">>,
              <<"m","p","e","g","t","s">> >>

(***************************************************************************)
(* Properties                                                              *)
(***************************************************************************)
\* C1: when the text captured from the probe does not contain "h264_nvenc",
\* checkNvencAvailable returns false, the program exits with status 1 and
\* CreateProcessA is never reached.
C1_NoLaunchWithoutEncoder ==
    (output # <<>> /\ ~Contains(output[1], Needle)) =>
        /\ pc \in {"check_find", "check_ret", "aborted"}
        /\ (pc # "check_find" => nvenc = <<FALSE>>)
        /\ (pc = "aborted" => exitCode = <<1>>)
        /\ launched = <<>>
        /\ child = "none"

C1_Witness ==
    /\ pc = "aborted"
    /\ output # <<>>
    /\ output[1] # <<>>
    /\ ~Contains(output[1], Needle)
    /\ exitCode = <<1>>

\* C2: the exit code depends only on the stage reached: 1 exactly when the
\* probe failed or the creation of the streaming process failed, 0 exactly
\* when the child was created and has exited, however it ended and whatever
\* its exit status; there is no exit code before main returns.
C2_ExitCodeByStage ==
    /\ (~Terminal => exitCode = <<>>)
    /\ (Terminal =>
          /\ exitCode \in {<<0>>, <<1>>}
          /\ (exitCode = <<1>>) <=> (nvenc = <<FALSE>> \/ lastError # <<>>)
          /\ (exitCode = <<0>>) <=> (acquired["hProcess"] = 1 /\ child = "exited"))

C2_Witness ==
    /\ pc = "stopped"
    /\ childExit = <<"crash", 1>>
    /\ exitCode = <<0>>

\* C3: for a host without separator characters and a positive port, the
\* command line built has udp://<host>:<port> as its last argument, the
\* configured frame rate after -framerate, and the other arguments in their
\* fixed order.
C3_CommandLine ==
    (ffmpegCmd # <<>> /\ HostOk(targetIp)) =>
        LET a == Args(ffmpegCmd)
            n == Len(ArgsHead) + 1 + Len(ArgsMid) + 1
            uri == <<"u","d","p",":","/","/">> \o targetIp \o <<":">>
        IN  /\ Len(a) = n
            /\ SubSeq(a, 1, Len(ArgsHead)) = ArgsHead
            /\ IsDecimalOf(a[Len(ArgsHead) + 1], frameRate)
            /\ SubSeq(a, Len(ArgsHead) + 2, n - 1) = ArgsMid
            /\ Len(a[n]) > Len(uri)
            /\ SubSeq(a[n], 1, Len(uri)) = uri
            /\ IsDecimalOf(SubSeq(a[n], Len(uri) + 1, Len(a[n])), targetPort)

\* argv = ["sender", "10.0.0.5"], the default configuration, a clean child
C3_Witness ==
    /\ pc = "stopped"
    /\ argv = <<Prog, Host1>>
    /\ LET a == Args(ffmpegCmd)
       IN  /\ a[Len(a)] = <<"u","d","p",":","/","/","1","0",".","0",".","0",".","5",":","5","5","5","5">>
           /\ a[5] = <<"-","f","r","a","m","e","r","a","t","e">>
           /\ a[6] = <<"6","0">>
    /\ childExit = <<"normal", 0>>
    /\ exitCode = <<0>>

\* C4: when the probing process cannot be launched (_popen fails, or the
\* captured output is empty), checkNvencAvailable returns false with a
\* diagnostic, no exception is in flight outside checkNvencAvailable, and
\* the program exits with status 1.
C4_ProbeFailureIsFalse ==
    /\ (exc # "none" => pc \in {"exec_catch", "check_catch"})
    /\ (pc \notin {"main_start", "check_start"} /\ (pipe = "null" \/ output = << <<>> >>)) =>
          /\ pc \in {"check_find", "check_catch", "check_ret", "aborted"}
          /\ (pc \in {"check_ret", "aborted"} =>
                /\ nvenc = <<FALSE>>
                /\ exc = "none"
                /\ Len(err) = 2)
          /\ (pc = "aborted" => exitCode = <<1>>)
          /\ launched = <<>>

C4_Witness ==
    /\ pc = "aborted"
    /\ pipe = "null"
    /\ nvenc = <<FALSE>>
    /\ Printed(err, <<"Error checking for NVENC: ", "_popen() failed!">>)
    /\ exitCode = <<1>>

\* C5: when the creation of the streaming process fails, the diagnostic
\* holds the platform error code, the program exits with status 1, does not
\* wait, prints neither that streaming started nor that it stopped, and has
\* called CreateProcessA once.
C5_LaunchFailure ==
    (lastError # <<>>) =>
        /\ pc = "launch_failed"
        /\ exitCode = <<1>>
        /\ Printed(err, <<"CreateProcess failed (", lastError[1], ").">>)
        /\ ~Printed(out, <<"Streaming started... Press Ctrl+C in this window to stop.">>)
        /\ ~Printed(out, <<"Streaming stopped.">>)
        /\ Len(launched) = 1
        /\ child = "none"
        /\ acquired["hProcess"] = 0 /\ acquired["hThread"] = 0

C5_Witness ==
    /\ pc = "launch_failed"
    /\ lastError = <<2>>
    /\ exitCode = <<1>>

\* C6: every handle acquired is released exactly once by the time main
\* returns: the pipe on the normal and on the exception path of exec, the
\* process and thread handles after the wait has completed; no handle is
\* released that was not acquired.
C6_HandlesReleased ==
    /\ \A h \in Handles : released[h] <= acquired[h] /\ acquired[h] <= 1
    /\ (Terminal => \A h \in Handles : released[h] = acquired[h])
    /\ (pc \in {"check_find", "check_catch", "check_ret"} => released["pipe"] = acquired["pipe"])
    /\ (pipe = "closed" <=> released["pipe"] = 1)
    /\ \A h \in {"hProcess", "hThread"} :
          released[h] = 1 => (child = "exited" /\ Printed(out, <<"Streaming stopped.">>))

\* the probe threw while reading: the pipe was opened and closed once
C6_Witness ==
    /\ pc = "aborted"
    /\ Printed(err, <<"Error checking for NVENC: ", "bad allocation">>)
    /\ acquired["pipe"] = 1
    /\ released["pipe"] = 1
    /\ acquired["hProcess"] = 0
    /\ released["hProcess"] = 0

PhaseSteps ==
    { <<"Idle", "Probing">>,
      <<"Probing", "Aborted">>,
      <<"Probing", "CommandBuilt">>,
      <<"CommandBuilt", "LaunchFailed">>,
      <<"CommandBuilt", "Streaming">>,
      <<"Streaming", "Stopped">> }

C8_TargetHost ==
    (pc # "main_start") =>
        /\ targetIp = IF Len(argv) = 1
                      THEN <<"1","9","2",".","1","6","8",".","1",".","1","0","0">>
                      ELSE argv[2]
        /\ \A i \in 1..Len(launched) :
              EndsWith(launched[i], <<"u","d","p",":","/","/">> \o targetIp \o <<":","5","5","5","5">>)

C8_Witness ==
    /\ Len(argv) = 3
    /\ argv[2] = Host1
    /\ argv[3] # argv[2]
    /\ Len(launched) = 1
    /\ EndsWith(launched[1], <<"/","1","0",".","0",".","0",".","5",":","5","5","5","5">>)

\* C9: for a text output of the probing subprocess, exec returns the whole
\* output however the fgets reads split it, and checkNvencAvailable returns
\* true exactly when the output contains "h264_nvenc".
C9_WholeOutputCaptured ==
    (output # <<>> /\ IsText(probeOut)) =>
        /\ output[1] = probeOut
        /\ (nvenc # <<>> => nvenc = <<Contains(probeOut, Needle)>>)

\* the occurrence begins in the first read and ends in the second
C9_Witness ==
    /\ nvenc = <<TRUE>>
    /\ reads = 2
    /\ IsText(probeOut)
    /\ \A i \in 1..(BufSize - 1) : probeOut[i] # "LF"
    /\ \E i \in 1..(BufSize - 1) :
          /\ i + Len(Needle) - 1 > BufSize - 1
          /\ SubSeq(probeOut, i, i + Len(Needle) - 1) = Needle

\* C10: if the probing subprocess reaches end-of-stream and the streaming
\* child, once created, exits, the program reaches Aborted, LaunchFailed or
\* Stopped; while the probe has nothing to read and has not ended, or the
\* child runs, the program has no step of its own.
C10_Termination ==
    /\ <>Terminal
    /\ [](pc = "exec_read" /\ probe = "running" /\ avail = <<>> => ~ENABLED ProgramStep)
    /\ [](pc = "wait" /\ child = "running" => ~ENABLED ProgramStep)

C10_Witness ==
    /\ pc = "wait"
    /\ child = "running"
    /\ probe = "closed"
    /\ ~ENABLED ProgramStep

====
